---- MODULE Spec2Model ----
(***************************************************************************)
(* Model of the cache engine of rust_memcached (src/src/memcached.rs).     *)
(*                                                                         *)
(* The engine is the struct Memcached: a byte budget (limit,               *)
(* current_size), the primary map cache: key -> Item, and two ordered      *)
(* secondary indexes keys_by_ttl and keys_by_touch: Instant -> Vec<key>.   *)
(* Every public method is one action; the methods themselves are operators *)
(* on a record mc holding the struct's fields, returning the new struct    *)
(* and the method's return value.                                          *)
(*                                                                         *)
(* Instants are natural numbers read from the variable now (a monotonic,   *)
(* non-decreasing clock: two reads may return the same instant).           *)
(* Option<T> is a sequence of length at most one.  A BTreeMap / HashMap is *)
(* a function whose DOMAIN is the set of keys present.  A failed unwrap /  *)
(* expect, and every other panic of the engine, sets the flag panic of the *)
(* struct record.                                                          *)
(*                                                                         *)
(* A usize is an integer; a number x below 0 stands for the usize          *)
(* 2^64 + x, which is what wrapping arithmetic leaves when a subtraction   *)
(* passes below 0.  Whether an arithmetic overflow on a usize panics or    *)
(* wraps depends on the build (overflow checks on: debug, off: release):   *)
(* the variable overflow_checks holds which build is running.              *)
(***************************************************************************)
EXTENDS Integers, Sequences, FiniteSets, TLC

\* ---------------------------------------------------------------- bounds
MaxLimit == 2
MaxValLen == 2
MaxTime == 2
MaxTtl == 1

Keys == {"a", "b"}
Bytes == {97}

VARIABLES
    limit,          \* Memcached.limit
    current_size,   \* Memcached.current_size
    cache,          \* Memcached.cache
    keys_by_ttl,    \* Memcached.keys_by_ttl
    keys_by_touch,  \* Memcached.keys_by_touch
    panic,          \* an unwrap / expect of the engine has failed
    now,            \* the monotonic clock read by Instant::now()
    op,             \* the last call made on the engine and its arguments
    ret,            \* the Option<Vec<u8>> that call returned (get, delete)
    admitted,       \* the bool that call returned (set)
    memory_retrieved, \* the bytes that call reclaimed (collect_garbage)
    displaced,      \* the evictions of the last set, in order (the debug! trace)
    order,          \* history: resident keys from least to most recently admitted
    guards,         \* per thread, the RwLock guard it holds on the engine
    overflow_checks \* the build: TRUE when arithmetic overflow panics (debug)

engine == <<limit, current_size, cache, keys_by_ttl, keys_by_touch, panic>>
vars == <<limit, current_size, cache, keys_by_ttl, keys_by_touch, panic,
          now, op, ret, admitted, memory_retrieved, displaced, order, guards,
          overflow_checks>>

\* ------------------------------------------------------- data structures
None == <<>>
Some(x) == <<x>>

RECURSIVE SeqsUpTo(_)
SeqsUpTo(n) ==
    IF n = 0 THEN {<<>>}
    ELSE LET shorter == SeqsUpTo(n - 1)
         IN shorter \cup {Append(s, b) : s \in {t \in shorter : Len(t) = n - 1}, b \in Bytes}

Values == SeqsUpTo(MaxValLen)

\* The longest Duration of the model.  It stands for Duration::MAX, which is
\* more than the clock can add to any Instant: InstantMax, the last Instant,
\* is short of it.
DurationMax == 2147483647
InstantMax == DurationMax - 1

\* The ttl arguments of set: none, the short ones, and the longest Duration.
Ttls == {None} \cup {Some(d) : d \in 0..MaxTtl} \cup {Some(DurationMax)}

\* The first instant that is after the expiry of every Item of the model.
Horizon == MaxTime + MaxTtl + 1

Min(S) == CHOOSE x \in S : \A y \in S : x <= y

MapRemove(m, k) == [x \in DOMAIN m \ {k} |-> m[x]]
MapInsert(m, k, v) == [x \in DOMAIN m \cup {k} |-> IF x = k THEN v ELSE m[x]]
EmptyMap == [x \in {} |-> None]

Retain(keys, key) == SelectSeq(keys, LAMBDA k : k # key)

RECURSIVE Ascending(_)
Ascending(S) ==
    IF S = {} THEN <<>>
    ELSE <<Min(S)>> \o Ascending(S \ {Min(S)})

\* take_while with <= in place of <.
RECURSIVE TakeWhileNotAfter(_, _)
TakeWhileNotAfter(ttls, t) ==
    IF ttls = <<>> \/ ~(Head(ttls) <= t) THEN <<>>
    ELSE <<Head(ttls)>> \o TakeWhileNotAfter(Tail(ttls), t)

\* take_while that stops after the first bucket it takes.
TakeFirstLess(ttls, t) ==
    IF ttls = <<>> \/ ~(Head(ttls) < t) THEN <<>> ELSE <<Head(ttls)>>

RECURSIVE TakeWhileLess(_, _)
TakeWhileLess(ttls, t) ==
    IF ttls = <<>> \/ ~(Head(ttls) < t) THEN <<>>
    ELSE <<Head(ttls)>> \o TakeWhileLess(Tail(ttls), t)

Item(touch, ttl, data) == [touch |-> touch, ttl |-> ttl, data |-> data]

Self == [limit |-> limit, current_size |-> current_size, cache |-> cache,
         keys_by_ttl |-> keys_by_ttl, keys_by_touch |-> keys_by_touch,
         panic |-> panic]

new(lim) == [limit |-> lim, current_size |-> 0, cache |-> EmptyMap,
             keys_by_ttl |-> EmptyMap, keys_by_touch |-> EmptyMap,
             panic |-> FALSE]

Panicked(mc) == [mc EXCEPT !.panic = TRUE]


\* A method that runs after a panic does not run: every operator below
\* returns the struct unchanged once mc.panic is set.

\* ------------------------------------------------------- private methods
\* remove_from_ttl that drops the whole bucket instead of retaining the others.
remove_from_ttl_drop_bucket(mc, key, ttl) ==
    IF mc.panic \/ ttl = None THEN mc
    ELSE IF ttl[1] \notin DOMAIN mc.keys_by_ttl THEN Panicked(mc)
    ELSE [mc EXCEPT !.keys_by_ttl = MapRemove(@, ttl[1])]

remove_from_ttl(mc, key, ttl) ==
    IF mc.panic \/ ttl = None THEN mc
    ELSE IF ttl[1] \notin DOMAIN mc.keys_by_ttl THEN Panicked(mc)
    ELSE IF Retain(mc.keys_by_ttl[ttl[1]], key) # <<>>
    THEN [mc EXCEPT !.keys_by_ttl = MapInsert(@, ttl[1], Retain(@[ttl[1]], key))]
    ELSE [mc EXCEPT !.keys_by_ttl = MapRemove(@, ttl[1])]

\* remove_from_touch that leaves the emptied bucket in the map.
remove_from_touch_keep_empty(mc, key, touch) ==
    IF mc.panic THEN mc
    ELSE IF touch \notin DOMAIN mc.keys_by_touch THEN Panicked(mc)
    ELSE [mc EXCEPT !.keys_by_touch = MapInsert(@, touch, Retain(@[touch], key))]

remove_from_touch(mc, key, touch) ==
    IF mc.panic THEN mc
    ELSE IF touch \notin DOMAIN mc.keys_by_touch THEN Panicked(mc)
    ELSE IF Retain(mc.keys_by_touch[touch], key) # <<>>
    THEN [mc EXCEPT !.keys_by_touch = MapInsert(@, touch, Retain(@[touch], key))]
    ELSE [mc EXCEPT !.keys_by_touch = MapRemove(@, touch)]

\* The subtraction from current_size left out.
sub_size_skipped(mc, n) == mc

\* a > b on two usize.
usize_gt(a, b) == IF (a < 0) = (b < 0) THEN a > b ELSE a < 0

\* a + n on a usize passes 2^64.
add_overflows(a, n) == a < 0 /\ a + n >= 0

\* self.current_size -= n on a usize: on an underflow a build with overflow
\* checks panics and a build without them wraps.
sub_size(mc, n) ==
    IF mc.panic THEN mc
    ELSE IF overflow_checks /\ usize_gt(n, mc.current_size) THEN Panicked(mc)
    ELSE [mc EXCEPT !.current_size = @ - n]

\* ---------------------------------------------------------------- delete
delete(mc, key) ==
    IF key \notin DOMAIN mc.cache THEN [mc |-> mc, ret |-> None]
    ELSE [mc |-> sub_size(
                   remove_from_ttl(
                     remove_from_touch([mc EXCEPT !.cache = MapRemove(@, key)],
                                       key, mc.cache[key].touch),
                     key, mc.cache[key].ttl),
                   Len(mc.cache[key].data)),
          ret |-> Some(mc.cache[key].data)]

\* ------------------------------------------------------------------- get
\* get with <= in place of <: an entry is absent already at its expiry instant.
get_expired_at_expiry(mc, key, instant) ==
    IF key \notin DOMAIN mc.cache THEN [mc |-> mc, ret |-> None]
    ELSE IF mc.cache[key].ttl # None /\ mc.cache[key].ttl[1] <= instant
    THEN [mc |-> mc, ret |-> None]
    ELSE [mc |-> mc, ret |-> Some(mc.cache[key].data)]

\* get that deletes the expired entry it finds (lazy expiry on the read path).
get_lazy_delete(mc, key, instant) ==
    IF key \notin DOMAIN mc.cache THEN [mc |-> mc, ret |-> None]
    ELSE IF mc.cache[key].ttl # None /\ mc.cache[key].ttl[1] < instant
    THEN [mc |-> delete(mc, key).mc, ret |-> None]
    ELSE [mc |-> mc, ret |-> Some(mc.cache[key].data)]

\* get that takes the entry out of the cache when it returns its value.
get_take(mc, key, instant) ==
    IF key \notin DOMAIN mc.cache THEN [mc |-> mc, ret |-> None]
    ELSE IF mc.cache[key].ttl # None /\ mc.cache[key].ttl[1] < instant
    THEN [mc |-> mc, ret |-> None]
    ELSE [mc |-> delete(mc, key).mc, ret |-> Some(mc.cache[key].data)]

\* get takes &self: the struct it returns is the struct it was given.
get(mc, key, instant) ==
    IF key \notin DOMAIN mc.cache THEN [mc |-> mc, ret |-> None]
    ELSE IF mc.cache[key].ttl # None /\ mc.cache[key].ttl[1] < instant
    THEN [mc |-> mc, ret |-> None]
    ELSE [mc |-> mc, ret |-> Some(mc.cache[key].data)]

\* --------------------------------------------------------- remove_oldest
is_some(r) == [mc |-> r.mc, ret |-> r.ret # None]

\* remove_oldest that takes the last bucket of keys_by_touch instead of the first.
remove_newest(mc) ==
    IF DOMAIN mc.keys_by_touch = {} THEN [mc |-> mc, ret |-> FALSE]
    ELSE LET last == CHOOSE t \in DOMAIN mc.keys_by_touch :
                         \A u \in DOMAIN mc.keys_by_touch : u <= t
         IN IF mc.keys_by_touch[last] = <<>> THEN [mc |-> Panicked(mc), ret |-> FALSE]
            ELSE is_some(delete(mc, mc.keys_by_touch[last][1]))

remove_oldest(mc) ==
    IF DOMAIN mc.keys_by_touch = {} THEN [mc |-> mc, ret |-> FALSE]
    ELSE LET keys == mc.keys_by_touch[Min(DOMAIN mc.keys_by_touch)]
         IN IF keys = <<>> THEN [mc |-> Panicked(mc), ret |-> FALSE]
            ELSE is_some(delete(mc, keys[1]))

\* ------------------------------------------------------- collect_garbage
\* The closure of collect_garbage without its self.keys_by_ttl.remove(ttl).
remove_bucket_left_out(mc, ttl) == mc

\* self.keys_by_ttl.remove(ttl) inside the closure of collect_garbage.
remove_bucket(mc, ttl) ==
    IF mc.panic THEN mc ELSE [mc EXCEPT !.keys_by_ttl = MapRemove(@, ttl)]

\* The closure of collect_garbage applied to one key of a taken bucket.
gc_key(mc, ttl, key) ==
    IF mc.panic THEN mc
    ELSE IF key \notin DOMAIN mc.cache THEN Panicked(mc)
    ELSE sub_size(
           remove_bucket(
             remove_from_touch([mc EXCEPT !.cache = MapRemove(@, key)],
                               key, mc.cache[key].touch),
             ttl),
           Len(mc.cache[key].data))

RECURSIVE gc_keys(_, _, _)
gc_keys(mc, ttl, keys) ==
    IF keys = <<>> THEN mc
    ELSE gc_keys(gc_key(mc, ttl, Head(keys)), ttl, Tail(keys))

RECURSIVE gc_sets(_, _)
gc_sets(mc, keys_sets) ==
    IF keys_sets = <<>> THEN mc
    ELSE gc_sets(gc_keys(mc, Head(keys_sets)[1], Head(keys_sets)[2]), Tail(keys_sets))

\* The buckets of ttls, in that order, each with the keys taken out of it.
keys_sets_of(mc, ttls) == [i \in 1..Len(ttls) |-> <<ttls[i], mc.keys_by_ttl[ttls[i]]>>]

\* mem::take: the buckets of ttls are left empty in the map.
taken(mc, ttls) ==
    [mc EXCEPT !.keys_by_ttl =
        [t \in DOMAIN @ |-> IF \E i \in 1..Len(ttls) : ttls[i] = t THEN <<>> ELSE @[t]]]

collect_garbage(mc, instant) ==
    LET ttls == TakeWhileLess(Ascending(DOMAIN mc.keys_by_ttl), instant)
    IN gc_sets(taken(mc, ttls), keys_sets_of(mc, ttls))

\* ------------------------------------------------------------------- set
\* The fit test without the length of the new value.
not_enough_space_now(mc, value) == mc.current_size > mc.limit

not_enough_space(mc, value) == usize_gt(mc.current_size + Len(value), mc.limit)

\* set without the collect_garbage that precedes its eviction loop.
reclaim_left_out(mc, value, gc_instant) == mc

\* set that calls collect_garbage whether or not the value fits.
reclaim_always(mc, value, gc_instant) == collect_garbage(mc, gc_instant)

\* if not_enough_space(self) { self.collect_garbage() }
\* The sum of the fit test is the first addition of set: with overflow checks
\* it panics here when current_size + value.len() passes 2^64.
reclaim(mc, value, gc_instant) ==
    IF ~mc.panic /\ overflow_checks /\ add_overflows(mc.current_size, Len(value))
    THEN Panicked(mc)
    ELSE IF not_enough_space(mc, value) THEN collect_garbage(mc, gc_instant)
    ELSE mc

\* The while loop of set.  trace lists, per eviction, the key removed and
\* the keys that were resident when remove_oldest was called.
RECURSIVE displace(_, _, _)
RECURSIVE displaced_one(_, _, _, _)
displace(mc, value, trace) ==
    IF mc.panic \/ ~not_enough_space(mc, value) THEN [mc |-> mc, trace |-> trace]
    ELSE displaced_one(mc, remove_oldest(mc), value, trace)

\* The eviction of set as an if instead of a while: at most one entry goes.
displaced_once(mc, r, value, trace) ==
    IF r.ret
    THEN [mc |-> r.mc,
          trace |-> Append(trace, [key |-> CHOOSE k \in DOMAIN mc.cache : k \notin DOMAIN r.mc.cache,
                                   residents |-> DOMAIN mc.cache])]
    ELSE [mc |-> r.mc, trace |-> trace]

displaced_one(mc, r, value, trace) ==
    IF r.ret
    THEN displace(r.mc, value,
                  Append(trace, [key |-> CHOOSE k \in DOMAIN mc.cache : k \notin DOMAIN r.mc.cache,
                                 residents |-> DOMAIN mc.cache]))
    ELSE [mc |-> r.mc, trace |-> trace]

\* remove(&instant).unwrap_or_else(|| Vec::with_capacity(1))
bucket_or_new(m, instant) == IF instant \in DOMAIN m THEN m[instant] ELSE <<>>

\* Instant + Duration: checked_add, None when the sum is after the last Instant.
checked_add(instant, duration) ==
    IF duration > InstantMax - instant THEN None ELSE Some(instant + duration)

\* ttl.map(|ttl| touch + ttl) panics: the addition has no Instant to return.
expiry_overflows(ttl, touch) == ttl # None /\ checked_add(touch, ttl[1]) = None

\* insert_item that starts a fresh bucket instead of appending to the one there.
insert_item_fresh_bucket(mc, key, value, ttl, touch) ==
    IF mc.panic THEN mc
    ELSE IF expiry_overflows(ttl, touch) THEN Panicked(mc)
    ELSE [mc EXCEPT
            !.cache = MapInsert(@, key, Item(touch, IF ttl = None THEN None
                                                    ELSE Some(touch + ttl[1]), value)),
            !.keys_by_touch = MapInsert(@, touch, <<key>>),
            !.keys_by_ttl = IF ttl = None THEN @
                            ELSE MapInsert(@, touch + ttl[1], <<key>>),
            !.current_size = @ + Len(value)]

\* The insertion of set: the expiry of the new Item, which panics when touch +
\* ttl is beyond the last Instant, then the Item, its recency bucket, its
\* expiry bucket when it has a ttl, and current_size.
insert_item(mc, key, value, ttl, touch) ==
    IF mc.panic THEN mc
    ELSE IF expiry_overflows(ttl, touch) THEN Panicked(mc)
    ELSE [mc EXCEPT
            !.cache = MapInsert(@, key, Item(touch, IF ttl = None THEN None
                                                    ELSE Some(touch + ttl[1]), value)),
            !.keys_by_touch = MapInsert(@, touch, Append(bucket_or_new(@, touch), key)),
            !.keys_by_ttl = IF ttl = None THEN @
                            ELSE MapInsert(@, touch + ttl[1],
                                           Append(bucket_or_new(@, touch + ttl[1]), key)),
            !.current_size = @ + Len(value)]

\* What set hands back.  A set that panicked returns nothing: ret is FALSE
\* and mc.panic tells it from a set that returned false.
returned(mc, ok, trace) == [mc |-> mc, ret |-> ok /\ ~mc.panic, trace |-> trace]

\* admit that keeps the entry of a key that is already resident.
admit_keep_resident(d, key, value, ttl, touch) ==
    IF d.mc.panic \/ not_enough_space(d.mc, value) THEN returned(d.mc, FALSE, d.trace)
    ELSE IF key \in DOMAIN d.mc.cache THEN returned(d.mc, TRUE, d.trace)
    ELSE returned(insert_item(d.mc, key, value, ttl, touch), TRUE, d.trace)

\* set after its eviction loop has ended in d: the last fit test, the removal
\* of the old entry of key and the insertion.
admit(d, key, value, ttl, touch) ==
    IF d.mc.panic \/ not_enough_space(d.mc, value) THEN returned(d.mc, FALSE, d.trace)
    ELSE returned(insert_item(delete(d.mc, key).mc, key, value, ttl, touch), TRUE, d.trace)

\* set that removes the old entry of key before its fit test and evictions.
set_delete_first(mc, key, value, ttl, gc_instant, touch) ==
    admit(displace(reclaim(delete(mc, key).mc, value, gc_instant), value, <<>>),
          key, value, ttl, touch)

\* gc_instant is the instant sampled by collect_garbage when set calls it,
\* touch the instant sampled afterwards for the new Item.
set(mc, key, value, ttl, gc_instant, touch) ==
    admit(displace(reclaim(mc, value, gc_instant), value, <<>>), key, value, ttl, touch)

\* ------------------------------------------------------------ the system
Call(name, key, value, ttl) == [name |-> name, key |-> key, value |-> value, ttl |-> ttl]

Install(mc) ==
    /\ limit' = mc.limit
    /\ current_size' = mc.current_size
    /\ cache' = mc.cache
    /\ keys_by_ttl' = mc.keys_by_ttl
    /\ keys_by_touch' = mc.keys_by_touch
    /\ panic' = mc.panic

Surviving(keys, residents) == SelectSeq(keys, LAMBDA k : k \in residents)

\* The threads of the service: two request handlers and the sweeper.
Handlers == {"h1", "h2"}
Threads == Handlers \cup {"gc"}

\* A thread that holds no guard.  rest is read only from a held guard.
Unlocked == [kind |-> "none", name |-> "", key |-> "", rest |-> new(0)]

Init ==
    /\ \E mc \in {new(lim) : lim \in 0..MaxLimit} :
          /\ limit = mc.limit
          /\ current_size = mc.current_size
          /\ cache = mc.cache
          /\ keys_by_ttl = mc.keys_by_ttl
          /\ keys_by_touch = mc.keys_by_touch
          /\ panic = mc.panic
    /\ now = 0
    /\ op = Call("new", "", <<>>, None)
    /\ ret = None
    /\ admitted = FALSE
    /\ memory_retrieved = 0
    /\ displaced = <<>>
    /\ order = <<>>
    /\ guards = [t \in Threads |-> Unlocked]
    /\ overflow_checks \in BOOLEAN

Tick ==
    /\ ~panic
    /\ now < MaxTime
    /\ now' = now + 1
    /\ op' = Call("tick", "", <<>>, None)
    /\ ret' = None
    /\ admitted' = FALSE
    /\ memory_retrieved' = 0
    /\ displaced' = <<>>
    /\ UNCHANGED <<engine, order, guards, overflow_checks>>

Get(key) ==
    /\ ~panic
    /\ \E r \in {get(Self, key, now)} :
          /\ Install(r.mc)
          /\ ret' = r.ret
    /\ admitted' = FALSE
    /\ memory_retrieved' = 0
    /\ op' = Call("get", key, <<>>, None)
    /\ displaced' = <<>>
    /\ UNCHANGED <<now, order, guards, overflow_checks>>

Set(key, value, ttl, touch) ==
    /\ ~panic
    /\ \E r \in {set(Self, key, value, ttl, now, touch)} :
          /\ Install(r.mc)
          /\ admitted' = r.ret
          /\ displaced' = r.trace
          /\ order' = IF r.ret
                      THEN Append(Surviving(Retain(order, key), DOMAIN r.mc.cache), key)
                      ELSE Surviving(order, DOMAIN r.mc.cache)
    /\ now' = touch
    /\ op' = Call("set", key, value, ttl)
    /\ ret' = None
    /\ memory_retrieved' = 0
    /\ UNCHANGED <<guards, overflow_checks>>

Delete(key) ==
    /\ ~panic
    /\ \E r \in {delete(Self, key)} :
          /\ Install(r.mc)
          /\ ret' = r.ret
          /\ order' = Surviving(order, DOMAIN r.mc.cache)
    /\ admitted' = FALSE
    /\ memory_retrieved' = 0
    /\ op' = Call("delete", key, <<>>, None)
    /\ displaced' = <<>>
    /\ UNCHANGED <<now, guards, overflow_checks>>

CollectGarbage ==
    /\ ~panic
    /\ op' = Call("collect_garbage", "", <<>>, None)
    /\ \E mc \in {collect_garbage(Self, now)} :
          /\ Install(mc)
          /\ memory_retrieved' = current_size - mc.current_size
          /\ order' = Surviving(order, DOMAIN mc.cache)
    /\ ret' = None
    /\ admitted' = FALSE
    /\ displaced' = <<>>
    /\ UNCHANGED <<now, guards, overflow_checks>>

Next ==
    \/ Tick
    \/ \E key \in Keys : Get(key)
    \/ \E key \in Keys, value \in Values, ttl \in Ttls, touch \in now..(now + 1) :
           touch <= MaxTime /\ Set(key, value, ttl, touch)
    \/ \E key \in Keys : Delete(key)
    \/ CollectGarbage

Spec == Init /\ [][Next]_vars

\* ----------------------------------------------------------- the service
\* The engine behind Arc<RwLock<Memcached>> (api.rs): every handler and the
\* sweeper take a guard, run one method of the engine and drop the guard.
\* A method that mutates is two steps here, so that the struct is visible in
\* the middle of the method to whoever is let in: the step that takes the
\* guard runs the method up to its first change of the cache map, the step
\* that drops the guard leaves the struct as the method returns it.

\* Every method called through mc.read().
privilege_always_read(name) == "read"

\* mc.read() for get, mc.write() for set, delete and collect_garbage.
privilege(name) == IF name = "get" THEN "read" ELSE "write"

\* RwLock: read() is granted while no write guard is held, write() while no
\* guard is held at all.
grantable(g, kind) ==
    IF kind = "read" THEN \A t \in Threads : g[t].kind # "write"
    ELSE \A t \in Threads : g[t].kind = "none"

\* delete after its self.cache.remove_entry(key).
started_delete(mc, key) ==
    IF key \in DOMAIN mc.cache THEN [mc EXCEPT !.cache = MapRemove(@, key)] ELSE mc

\* collect_garbage after the buckets were taken, before the closure has run.
started_gc(mc, instant) ==
    taken(mc, TakeWhileLess(Ascending(DOMAIN mc.keys_by_ttl), instant))

\* self.cache.insert of set on the struct mc that self.delete(key) has left:
\* it is not reached when the delete or the addition touch + ttl panicked.
stored_item(mc, key, value, ttl, touch) ==
    IF mc.panic THEN mc
    ELSE IF expiry_overflows(ttl, touch) THEN Panicked(mc)
    ELSE [mc EXCEPT
            !.cache = MapInsert(@, key, Item(touch, IF ttl = None THEN None
                                                    ELSE Some(touch + ttl[1]), value))]

\* set after self.cache.insert, before the indexes and current_size follow;
\* a rejected set is at its return, a set that panics where it panicked.
stored(d, key, value, ttl, touch) ==
    IF d.mc.panic \/ not_enough_space(d.mc, value) THEN d.mc
    ELSE stored_item(delete(d.mc, key).mc, key, value, ttl, touch)

started_set(mc, key, value, ttl, gc_instant, touch) ==
    stored(displace(reclaim(mc, value, gc_instant), value, <<>>), key, value, ttl, touch)

\* The struct in the middle of the method of call, and as the method leaves it.
midway(mc, call, instant) ==
    CASE call.name = "set" ->
             started_set(mc, call.key, call.value, call.ttl, instant, instant)
      [] call.name = "delete" -> started_delete(mc, call.key)
      [] call.name = "collect_garbage" -> started_gc(mc, instant)
      [] OTHER -> mc

finished(mc, call, instant) ==
    CASE call.name = "set" ->
             set(mc, call.key, call.value, call.ttl, instant, instant).mc
      [] call.name = "delete" -> delete(mc, call.key).mc
      [] call.name = "collect_garbage" -> collect_garbage(mc, instant)
      [] OTHER -> get(mc, call.key, instant).mc

\* Thread t is granted the guard of call and runs its method to the middle.
\* A method that panics unwinds with the guard held and poisons the RwLock:
\* the unwrap of every later read() or write() panics, no method is run again.
Begin(t, call) ==
    /\ ~panic
    /\ guards[t].kind = "none"
    /\ grantable(guards, privilege(call.name))
    /\ \E m \in {midway(Self, call, now)} : Install(m)
    /\ \E r \in {finished(Self, call, now)} :
          guards' = [guards EXCEPT ![t] = [kind |-> privilege(call.name),
                                           name |-> call.name,
                                           key |-> call.key,
                                           rest |-> r]]
    /\ UNCHANGED <<now, op, ret, admitted, memory_retrieved, displaced, order,
                   overflow_checks>>

\* Thread t returns from its method and drops its guard.
End(t) ==
    /\ guards[t].kind # "none"
    /\ IF guards[t].name = "get" THEN UNCHANGED engine ELSE Install(guards[t].rest)
    /\ guards' = [guards EXCEPT ![t] = Unlocked]
    /\ UNCHANGED <<now, op, ret, admitted, memory_retrieved, displaced, order,
                   overflow_checks>>

GetHandler(t, key) == Begin(t, Call("get", key, <<>>, None))

SetHandler(t, key, value, ttl) == Begin(t, Call("set", key, value, ttl))

DeleteHandler(t, key) == Begin(t, Call("delete", key, <<>>, None))

\* The sweeper thread wakes from its sleep and calls collect_garbage.
Sweeper == Begin("gc", Call("collect_garbage", "", <<>>, None))

NextService ==
    \/ Tick
    \/ \E t \in Handlers, key \in Keys : GetHandler(t, key)
    \/ \E t \in Handlers, key \in Keys, value \in Values, ttl \in Ttls :
           SetHandler(t, key, value, ttl)
    \/ \E t \in Handlers, key \in Keys : DeleteHandler(t, key)
    \/ Sweeper
    \/ \E t \in Threads : End(t)

SpecService == Init /\ [][NextService]_vars

\* ----------------------------------------------------------- the sweeper
\* The engine with its writers and the sweeper thread while time goes on.
\* Each method runs as one step, as the guards of the service give it; the
\* clients call set and delete, set only up to the instant MaxTime and with
\* one sample of the clock; the clock runs on to Horizon; CollectGarbage is
\* the body of the loop of gc.  A set that panics has poisoned the RwLock:
\* the mc.write().unwrap() of gc panics and the loop of the sweeper ends, as
\* every later call of a handler does.

\* The clock moves on, whether or not anybody calls the engine.
Elapse ==
    /\ ~panic
    /\ now < Horizon
    /\ now' = now + 1
    /\ op' = Call("tick", "", <<>>, None)
    /\ ret' = None
    /\ admitted' = FALSE
    /\ memory_retrieved' = 0
    /\ displaced' = <<>>
    /\ UNCHANGED <<engine, order, guards, overflow_checks>>

NextSweeper ==
    \/ Elapse
    \/ \E key \in Keys, value \in Values, ttl \in Ttls :
           now <= MaxTime /\ Set(key, value, ttl, now)
    \/ \E key \in Keys : Delete(key)
    \/ CollectGarbage

\* A CollectGarbage step would change the engine or the record of the last
\* call: the last call was another one, or a bucket of keys_by_ttl is before
\* the present instant.  This is ENABLED <<CollectGarbage>>_<<op, engine>>.
SweepDue ==
    /\ ~panic
    /\ op.name = "collect_garbage" => \E t \in DOMAIN keys_by_ttl : t < now

\* The clock advances, and the loop of gc does not end unless the lock is
\* poisoned: the sweeper sleeps and calls collect_garbage again and again.
\* The second condition is WF_<<op, engine>>(CollectGarbage) with its
\* enabling condition written out.
SpecSweeper ==
    /\ Init /\ [][NextSweeper]_vars
    /\ WF_now(Elapse)
    /\ ([]<>~SweepDue \/ []<><<CollectGarbage>>_<<op, engine>>)

\* ------------------------------------------------------------ properties
Count(keys, k) == Cardinality({i \in DOMAIN keys : keys[i] = k})

RECURSIVE SumLen(_, _)
SumLen(m, S) ==
    IF S = {} THEN 0
    ELSE LET k == CHOOSE x \in S : TRUE
         IN Len(m[k].data) + SumLen(m, S \ {k})

Expired(item, instant) == item.ttl # None /\ item.ttl[1] < instant

\* The index m with the keys of gone struck out and emptied buckets dropped.
Without(m, gone) ==
    LET kept == [t \in DOMAIN m |-> SelectSeq(m[t], LAMBDA k : k \notin gone)]
    IN [t \in {u \in DOMAIN m : kept[u] # <<>>} |-> kept[t]]

Pos(keys, k) == CHOOSE i \in DOMAIN keys : keys[i] = k

\* C1: the two secondary indexes agree exactly with the Store: a resident key
\* is exactly once in the recency bucket at its touch and in no other recency
\* bucket; with an expiry it is exactly once in the expiry bucket at that
\* instant and in no other, without one it is in no expiry bucket; and every
\* key of either index is resident.
C1_IndexesAgree ==
    /\ \A k \in DOMAIN cache :
         LET e == cache[k]
         IN /\ e.touch \in DOMAIN keys_by_touch
            /\ Count(keys_by_touch[e.touch], k) = 1
            /\ \A t \in DOMAIN keys_by_touch \ {e.touch} : Count(keys_by_touch[t], k) = 0
            /\ e.ttl # None =>
                 /\ e.ttl[1] \in DOMAIN keys_by_ttl
                 /\ Count(keys_by_ttl[e.ttl[1]], k) = 1
                 /\ \A t \in DOMAIN keys_by_ttl \ {e.ttl[1]} : Count(keys_by_ttl[t], k) = 0
            /\ e.ttl = None =>
                 \A t \in DOMAIN keys_by_ttl : Count(keys_by_ttl[t], k) = 0
    /\ \A t \in DOMAIN keys_by_touch : \A i \in DOMAIN keys_by_touch[t] :
         keys_by_touch[t][i] \in DOMAIN cache
    /\ \A t \in DOMAIN keys_by_ttl : \A i \in DOMAIN keys_by_ttl[t] :
         keys_by_ttl[t][i] \in DOMAIN cache

\* Two sets sampled the same instant: one recency bucket holds two keys, one of
\* them with an expiry and the other without.
C1_Witness ==
    /\ op.name = "set" /\ admitted
    /\ \E t \in DOMAIN keys_by_touch : Len(keys_by_touch[t]) = 2
    /\ \E k \in DOMAIN cache : cache[k].ttl = None
    /\ \E k \in DOMAIN cache : cache[k].ttl # None

\* C2: current_size is the sum of the value lengths of all resident entries,
\* expired-but-resident ones included, after every operation.
C2_SizeIsSum == current_size = SumLen(cache, DOMAIN cache)

\* A set has evicted to make room and an expired entry is still resident and
\* still counted.
C2_Witness ==
    /\ op.name = "set" /\ admitted /\ displaced # <<>>
    /\ \E k \in DOMAIN cache : Expired(cache[k], now) /\ Len(cache[k].data) > 0

\* C3: current_size never exceeds limit between public operations.
C3_WithinLimit == current_size <= limit

\* An admitted set overwrote a key that was resident (it was there when the
\* eviction loop ran and was not the key evicted) and filled the cache.
C3_Witness ==
    /\ op.name = "set" /\ admitted /\ displaced # <<>>
    /\ op.key \in displaced[1].residents
    /\ \A i \in DOMAIN displaced : displaced[i].key # op.key
    /\ current_size = limit

\* C4: set returns Rejected exactly when the value is longer than limit, and
\* a set of a value no longer than limit returns Admitted, whatever the cache
\* holds and whatever its ttl.
C4_RejectedIffOversize ==
    op.name = "set" =>
        /\ (~admitted /\ ~panic) <=> (Len(op.value) > limit)
        /\ Len(op.value) <= limit => admitted

\* C5: get returns the stored value exactly when the key is resident and has
\* no expiry or an expiry not before the instant of the call, else absent.
C5_GetLive ==
    op.name = "get" =>
        ret = IF op.key \in DOMAIN cache /\ ~Expired(cache[op.key], now)
              THEN Some(cache[op.key].data) ELSE None

\* get reported absent for an entry that is expired but still resident.
C5_Witness ==
    /\ op.name = "get" /\ ret = None
    /\ op.key \in DOMAIN cache
    /\ Len(cache[op.key].data) > 0

AdmittedSetOn(k) == op'.name = "set" /\ admitted' /\ op'.key = k

\* C6: an admitted set(k, v) leaves v as the value of k and a get of k then
\* returns v; the value of a resident key changes only by a later admitted
\* set on that key (so the set serialized last wins, the earlier value never
\* comes back); and get returns the resident value while the clock has not
\* passed its expiry.
C6_LastAdmittedSetWins ==
    [][ /\ \A k \in Keys : AdmittedSetOn(k) =>
              /\ k \in DOMAIN cache'
              /\ cache'[k].data = op'.value
              /\ get(Self', k, now').ret = Some(op'.value)
        /\ \A k \in DOMAIN cache \cap DOMAIN cache' :
              cache'[k].data # cache[k].data => AdmittedSetOn(k)
        /\ op'.name = "get" =>
              \A k \in DOMAIN cache :
                (op'.key = k /\ ~Expired(cache[k], now')) => ret' = Some(cache[k].data)
      ]_vars

\* An admitted one-byte set overwrote a key that was resident when the
\* eviction loop ran and that the loop did not evict.
C6_Witness ==
    /\ op.name = "set" /\ admitted /\ displaced # <<>>
    /\ op.key \in displaced[1].residents
    /\ \A i \in DOMAIN displaced : displaced[i].key # op.key
    /\ Len(op.value) = 1

\* C7: every eviction of set removes a key whose touch is the smallest among
\* the keys resident at that moment, the least recently admitted of the keys
\* with that touch; touch is the instant sampled by the key's last admitted
\* set and no other operation changes it.
C7_EvictsOldest ==
    [][ /\ op'.name = "set" =>
              \A i \in DOMAIN displaced' :
                LET e == displaced'[i]
                IN /\ e.key \in e.residents
                   /\ e.residents \subseteq DOMAIN cache
                   /\ \A k \in e.residents :
                        /\ cache[e.key].touch <= cache[k].touch
                        /\ cache[e.key].touch = cache[k].touch =>
                               Pos(order, e.key) <= Pos(order, k)
                   /\ e.key \in DOMAIN cache' => AdmittedSetOn(e.key)
        /\ \A k \in Keys : AdmittedSetOn(k) => cache'[k].touch = now'
        /\ \A k \in DOMAIN cache \cap DOMAIN cache' :
              cache'[k].touch # cache[k].touch => AdmittedSetOn(k)
      ]_vars

\* A set evicted a key and another key, not the one being set, stayed resident.
C7_Witness ==
    /\ op.name = "set" /\ displaced # <<>>
    /\ \E k \in DOMAIN cache : k # op.key

\* C8: collect_garbage removes from the Store and both indexes exactly the
\* entries whose expiry is strictly before the sampled instant, subtracts
\* their lengths from current_size and leaves every other entry and its index
\* membership as they were; afterwards no resident entry has expiry < now.
C8_CollectsExactlyExpired ==
    [][ op'.name = "collect_garbage" =>
          LET expired == {k \in DOMAIN cache : Expired(cache[k], now)}
          IN /\ cache' = [k \in DOMAIN cache \ expired |-> cache[k]]
             /\ keys_by_touch' = Without(keys_by_touch, expired)
             /\ keys_by_ttl' = Without(keys_by_ttl, expired)
             /\ current_size' = current_size - SumLen(cache, expired)
             /\ \A k \in DOMAIN cache' : ~Expired(cache'[k], now')
      ]_vars

\* collect_garbage retrieved bytes and an entry whose expiry is exactly the
\* sampled instant stayed resident.
C8_Witness ==
    /\ op.name = "collect_garbage" /\ memory_retrieved > 0
    /\ \E k \in DOMAIN cache : cache[k].ttl = Some(now)

\* C9: delete returns the stored value exactly when the key is resident
\* (expired or not) and absent otherwise; afterwards the key is not resident,
\* current_size is smaller by the removed length, the key is in neither
\* index, and every other key's entry and index membership is unchanged; a
\* delete of a non-resident key changes nothing.
C9_DeleteRemovesOnlyKey ==
    [][ op'.name = "delete" =>
          LET k == op'.key
              resident == k \in DOMAIN cache
          IN /\ ret' = IF resident THEN Some(cache[k].data) ELSE None
             /\ cache' = [x \in DOMAIN cache \ {k} |-> cache[x]]
             /\ current_size' = current_size - (IF resident THEN Len(cache[k].data) ELSE 0)
             /\ keys_by_touch' = Without(keys_by_touch, {k})
             /\ keys_by_ttl' = Without(keys_by_ttl, {k})
             /\ ~resident => UNCHANGED <<cache, keys_by_touch, keys_by_ttl, current_size>>
      ]_vars

\* delete returned a value while another key, one with an expiry, stayed
\* resident.
C9_Witness ==
    /\ op.name = "delete" /\ ret # None
    /\ \E k \in DOMAIN cache : cache[k].ttl # None

\* C10: get changes nothing of the engine: Store, both indexes and
\* current_size are the same before and after, also for an expired entry.
C10_GetIsReadOnly ==
    [][ op'.name = "get" =>
          UNCHANGED <<limit, current_size, cache, keys_by_ttl, keys_by_touch>>
      ]_vars

\* get reported absent for an expired entry which is the oldest resident key
\* and is still resident and counted.
C10_Witness ==
    /\ op.name = "get" /\ ret = None
    /\ op.key \in DOMAIN cache
    /\ current_size > 0
    /\ \E k \in DOMAIN cache : k # op.key /\ cache[op.key].touch < cache[k].touch

\* The struct after set(k, v, None) followed by delete(k), the set sampling
\* the instant now for its collection and touch for the new Item.
SetThenDelete(k, v, touch) == delete(set(Self, k, v, None, now, touch).mc, k).mc

\* C11 as stated: from every reachable state, for every key k and value v,
\* set(k, v, None) followed by delete(k) leaves current_size, the Store and
\* both indexes as they were before the set.
C11_RoundTripAlways ==
    \A k \in Keys, v \in Values, touch \in now..(now + 1) :
        SetThenDelete(k, v, touch) = Self

\* C11: from every reachable state in which k is not resident and the value
\* fits without reclaiming (current_size + |v| <= limit), set(k, v, None)
\* followed by delete(k) leaves current_size, the Store and both indexes as
\* they were before the set.
C11_RoundTripOfFreshKey ==
    \A k \in Keys \ DOMAIN cache, v \in Values, touch \in now..(now + 1) :
        current_size + Len(v) <= limit => SetThenDelete(k, v, touch) = Self

\* A non-empty value fits as it is for a key that is not resident, while the
\* recency bucket of the present instant already holds another key.
C11_Witness ==
    /\ now \in DOMAIN keys_by_touch
    /\ \E k \in Keys \ DOMAIN cache, v \in Values :
          /\ Len(v) > 0
          /\ current_size + Len(v) <= limit
          /\ delete(set(Self, k, v, None, now, now).mc, k).ret = Some(v)

\* C12 as stated: after a collect_garbage, a second collect_garbage with no
\* set or delete in between, whatever instant it samples, leaves the Store,
\* both indexes and current_size as the first run left them.
C12_SecondRunChangesNothing ==
    op.name = "collect_garbage" =>
        \A instant \in now..Horizon : collect_garbage(Self, instant) = Self

\* C12: after a collect_garbage that sampled the instant now, a second
\* collect_garbage with no set or delete in between leaves the Store, both
\* indexes and current_size as the first run left them, provided no resident
\* entry has its expiry at or after the first run's instant and strictly
\* before the second's (in particular when both sample the same instant).
C12_SecondRunIdempotent ==
    op.name = "collect_garbage" =>
        \A instant \in now..Horizon :
            (\A k \in DOMAIN cache :
                cache[k].ttl = None \/ ~(now <= cache[k].ttl[1] /\ cache[k].ttl[1] < instant))
            => collect_garbage(Self, instant) = Self

\* A collect_garbage has reclaimed bytes and left an entry with an expiry.
C12_Witness ==
    /\ op.name = "collect_garbage"
    /\ memory_retrieved > 0
    /\ \E k \in DOMAIN cache : cache[k].ttl # None

\* C13 as stated: after a get(k), a second get(k) with no set, delete or
\* collect_garbage in between, whatever instant it samples, returns what the
\* first returned.
C13_SecondGetSame ==
    op.name = "get" =>
        \A instant \in now..Horizon : get(Self, op.key, instant).ret = ret

\* C13: after a get(k) that sampled the instant now, a second get(k) with no
\* set, delete or collect_garbage in between returns what the first returned,
\* provided the expiry of k is not at or after the first call's instant and
\* strictly before the second's (in particular when both sample the same
\* instant, or k has no expiry or is not resident).
C13_SecondGetIdempotent ==
    op.name = "get" =>
        \A instant \in now..Horizon :
            (\/ op.key \notin DOMAIN cache
             \/ cache[op.key].ttl = None
             \/ ~(now <= cache[op.key].ttl[1] /\ cache[op.key].ttl[1] < instant))
            => get(Self, op.key, instant).ret = ret

\* A get has returned the non-empty value of an entry that has an expiry.
C13_Witness ==
    /\ op.name = "get" /\ ret # None
    /\ Len(ret[1]) > 0
    /\ cache[op.key].ttl # None

\* C16: after any sequence of set, delete and collect_garbage calls no bucket
\* of either index is an empty sequence; no expect or unwrap of the engine
\* has fired (the one panic there is comes from the addition touch + ttl of
\* set) and the expect of remove_oldest does not fire on the state reached;
\* remove_oldest returns false only when the Recency Index is empty, and
\* then the Store is empty too.
C16_NoEmptyBucket ==
    /\ \A t \in DOMAIN keys_by_touch : keys_by_touch[t] # <<>>
    /\ \A t \in DOMAIN keys_by_ttl : keys_by_ttl[t] # <<>>
    /\ panic => (op.name = "set" /\ expiry_overflows(op.ttl, now))
    /\ ~panic => ~remove_oldest(Self).mc.panic
    /\ (remove_oldest(Self).ret = FALSE) <=> (DOMAIN keys_by_touch = {})
    /\ DOMAIN keys_by_touch = {} => DOMAIN cache = {}

\* A set has evicted two entries, found the Recency Index empty at its third
\* remove_oldest and returned Rejected.
C16_Witness ==
    /\ op.name = "set" /\ ~admitted /\ ~panic
    /\ Len(displaced) = 2
    /\ DOMAIN keys_by_touch = {}

\* The resident keys whose expiry is strictly before the present instant.
ExpiredKeys == {k \in DOMAIN cache : Expired(cache[k], now)}

\* C17: a set that does not fit reclaims the expired entries before it evicts:
\* when current_size + |value| > limit every entry with expiry < now is gone
\* afterwards (the key being set is resident again if it is admitted); an eviction happens only if current_size + |value| still exceeds
\* limit with every such entry collected, no evicted key and no key resident
\* at an eviction is one of them; and every eviction is made at a point where
\* the bytes then resident plus |value| exceed limit, so the loop stops at the
\* first point where the value fits.
C17_ReclaimBeforeEvict ==
    [][ op'.name = "set" =>
          /\ current_size + Len(op'.value) > limit =>
                \A k \in ExpiredKeys : k \notin DOMAIN cache' \/ (k = op'.key /\ admitted')
          /\ displaced' # <<>> =>
                current_size - SumLen(cache, ExpiredKeys) + Len(op'.value) > limit
          /\ \A i \in DOMAIN displaced' :
                /\ displaced'[i].residents \cap ExpiredKeys = {}
                /\ displaced'[i].key \in displaced'[i].residents
                /\ SumLen(cache, displaced'[i].residents) + Len(op'.value) > limit
                /\ i > 1 => displaced'[i].residents =
                               displaced'[i - 1].residents \ {displaced'[i - 1].key}
          /\ displaced' # <<>> => displaced'[1].residents = DOMAIN cache \ ExpiredKeys
      ]_vars

\* An admitted set has evicted exactly one of two resident entries and the
\* other, which is not the key being set, is still resident.
C17_Witness ==
    /\ op.name = "set" /\ admitted
    /\ Len(displaced) = 1
    /\ \E k \in DOMAIN cache : k # op.key /\ k \in displaced[1].residents

\* C18: on a set(k, v, ttl) of a resident key k the fit test counts the old
\* entry of k: nothing is evicted when current_size + |v| <= limit, and
\* entries are evicted exactly when current_size, less the expired bytes that
\* collect_garbage reclaims, plus |v| exceeds limit and an unexpired entry is
\* left to evict, whether or not the value would fit in place of the old one;
\* the old entry of k is still resident while the loop runs, until the loop
\* itself evicts it as the oldest.
C18_OverwriteCountsOldEntry ==
    [][ (op'.name = "set" /\ op'.key \in DOMAIN cache) =>
          /\ current_size + Len(op'.value) <= limit => displaced' = <<>>
          /\ displaced' # <<>> <=>
                /\ current_size - SumLen(cache, ExpiredKeys) + Len(op'.value) > limit
                /\ DOMAIN cache \ ExpiredKeys # {}
          /\ \A i \in DOMAIN displaced' :
                \/ op'.key \in displaced'[i].residents
                \/ op'.key \in ExpiredKeys
                \/ \E j \in 1..(i - 1) : displaced'[j].key = op'.key
      ]_vars

\* A state in which the value would fit in place of the old entry of a
\* resident key, and the set of that key evicts another key and is admitted.
C18_Witness ==
    \E k \in DOMAIN cache, v \in Values :
        /\ current_size - Len(cache[k].data) + Len(v) <= limit
        /\ set(Self, k, v, None, now, now).ret
        /\ \E i \in DOMAIN set(Self, k, v, None, now, now).trace :
              set(Self, k, v, None, now, now).trace[i].key # k
        /\ \A i \in DOMAIN set(Self, k, v, None, now, now).trace :
              k \in set(Self, k, v, None, now, now).trace[i].residents

\* C19: after a set that returned Rejected the Store and both indexes are
\* empty and current_size is 0, so the new value is not stored and a get of
\* any key, at any later instant, returns absent.
C19_RejectedLeavesEmpty ==
    (op.name = "set" /\ ~admitted /\ ~panic) =>
        /\ DOMAIN cache = {}
        /\ DOMAIN keys_by_touch = {}
        /\ DOMAIN keys_by_ttl = {}
        /\ current_size = 0
        /\ \A k \in Keys, instant \in now..Horizon : get(Self, k, instant).ret = None

\* A set of a key that was resident, with a value longer than limit, has
\* evicted two entries, the old value of its key among them, and was rejected.
C19_Witness ==
    /\ op.name = "set" /\ ~admitted /\ ~panic
    /\ Len(op.value) > limit
    /\ Len(displaced) = 2
    /\ \E i \in DOMAIN displaced : displaced[i].key = op.key

\* The expiry of an Item admitted at touch with the ttl given.
ExpiryOf(ttl, touch) == IF ttl = None THEN None ELSE Some(touch + ttl[1])

\* The index m after key has been struck out of it and appended at instant.
Moved(m, key, instant) ==
    MapInsert(Without(m, {key}), instant,
              Append(bucket_or_new(Without(m, {key}), instant), key))

\* The bytes that current_size counts for the keys other than key.
SizeOfOthers(size, m, key) ==
    size - (IF key \in DOMAIN m THEN Len(m[key].data) ELSE 0)

\* C20: a set(k, v, ttl) called when current_size + |v| <= limit neither
\* collects nor evicts: the entry and the index membership of every other
\* key, expired ones included, are unchanged, and nothing changes but the
\* entry of k, the buckets k is in and current_size by the bytes of k.  When
\* the set returns it has returned Admitted: k has its new entry, is
\* appended to the recency bucket of its touch and, with a ttl, to the
\* expiry bucket of its expiry, and is in no other bucket; current_size
\* changes by |v| minus the length of the old value of k.
C20_FittingSetFrame ==
    [][ (op'.name = "set" /\ current_size + Len(op'.value) <= limit) =>
          /\ displaced' = <<>>
          /\ limit' = limit
          /\ DOMAIN cache' \ {op'.key} = DOMAIN cache \ {op'.key}
          /\ \A k \in DOMAIN cache \ {op'.key} : cache'[k] = cache[k]
          /\ Without(keys_by_touch', {op'.key}) = Without(keys_by_touch, {op'.key})
          /\ Without(keys_by_ttl', {op'.key}) = Without(keys_by_ttl, {op'.key})
          /\ SizeOfOthers(current_size', cache', op'.key)
                = SizeOfOthers(current_size, cache, op'.key)
          /\ ~panic' =>
                /\ admitted'
                /\ cache' = MapInsert(cache, op'.key,
                                      Item(now', ExpiryOf(op'.ttl, now'), op'.value))
                /\ keys_by_touch' = Moved(keys_by_touch, op'.key, now')
                /\ keys_by_ttl' = IF op'.ttl = None THEN Without(keys_by_ttl, {op'.key})
                                  ELSE Moved(keys_by_ttl, op'.key, now' + op'.ttl[1])
                /\ current_size' = current_size + Len(op'.value)
                                   - (IF op'.key \in DOMAIN cache
                                      THEN Len(cache[op'.key].data) ELSE 0)
      ]_vars

\* An admitted set has evicted nothing and another key is resident whose
\* expiry was already past at the earliest instant the set can have sampled,
\* so the set did not collect either.
C20_Witness ==
    /\ op.name = "set" /\ admitted /\ displaced = <<>>
    /\ Len(op.value) > 0
    /\ \E k \in DOMAIN cache :
          k # op.key /\ cache[k].ttl # None /\ cache[k].ttl[1] + 1 < now

InProgress(t) == guards[t].kind # "none"

Writing(t) == InProgress(t) /\ guards[t].name # "get"

\* C14: with the handlers and the sweeper running concurrently, set, delete
\* and collect_garbage run under a write guard and get under a read guard; no
\* other method is in progress while a set, delete or collect_garbage is; and
\* every method, the sweeper's collect_garbage and every get included, starts
\* in a state where no write is in progress and the indexes agree with the
\* Store and current_size is the sum of the resident lengths, which also
\* holds as long as a get is in progress.
C14_WritesExcludeAll ==
    /\ [](/\ \A t \in Threads : \A u \in Threads \ {t} : Writing(t) => ~InProgress(u)
          /\ \A t \in Threads :
                InProgress(t) =>
                    guards[t].kind = IF guards[t].name = "get" THEN "read" ELSE "write"
          /\ (\E t \in Threads : InProgress(t) /\ ~Writing(t)) =>
                (C1_IndexesAgree /\ C2_SizeIsSum))
    /\ [][ \A t \in Threads :
             (guards[t].kind = "none" /\ guards'[t].kind # "none") =>
                 /\ \A u \in Threads : ~Writing(u)
                 /\ C1_IndexesAgree /\ C2_SizeIsSum
         ]_vars

\* A handler is in the middle of a set, with the new Item in the cache and
\* not yet in the indexes, while the sweeper and the other handler hold nothing.
C14_Witness ==
    /\ \E t \in Handlers : Writing(t) /\ guards[t].name = "set"
    /\ ~C1_IndexesAgree
    /\ ~C2_SizeIsSum

\* Key k is resident with the expiry e.
StoredUntil(k, e) == k \in DOMAIN cache /\ cache[k].ttl = Some(e)

\* Nothing of the entry of k with expiry e is left: k is not resident with
\* that expiry, it is not in the expiry bucket of e unless resident, and
\* current_size counts the resident entries only.
Removed(k, e) ==
    /\ ~StoredUntil(k, e)
    /\ k \notin DOMAIN cache =>
          /\ \A t \in DOMAIN keys_by_touch : Count(keys_by_touch[t], k) = 0
          /\ \A t \in DOMAIN keys_by_ttl : Count(keys_by_ttl[t], k) = 0
    /\ current_size = SumLen(cache, DOMAIN cache)

\* C15: with the clock advancing and the sweeper calling collect_garbage
\* again and again, every entry stored with an expiry is eventually removed
\* from the Store and both indexes and its bytes are no longer counted in
\* current_size, whether or not a client ever calls the engine again.
C15_ExpiredEventuallyCollected ==
    \A e \in 0..(MaxTime + MaxTtl) :
        (\E k \in Keys : StoredUntil(k, e)) ~> (\A k \in Keys : Removed(k, e))

====
